---- MODULE Spec2Model ----
(***************************************************************************)
(* Model of collect_bank_sec_data.py: the acquisition / verification /     *)
(* retry / normalisation pipeline for SEC filings.                         *)
(*                                                                         *)
(* The staging tree data/sec-edgar-filings is the variable fs:             *)
(*   fs            : function, DOMAIN = names of the existing entity dirs  *)
(*   fs[d]         : function, DOMAIN = names of the existing form dirs    *)
(*   fs[d][f]      : set of bundles (accession directories)                *)
(*   bundle        : [name, files, readable, lines]                        *)
(*     files       : set of [path, isfile, size], every entry rglob("*")   *)
(*                   yields below the bundle, at any depth                 *)
(*     readable    : full-submission.txt can be opened                     *)
(*     lines       : the lines of full-submission.txt                      *)
(***************************************************************************)
EXTENDS Integers, Sequences, FiniteSets, TLC

VARIABLES
    pc,                  \* control location of the running specification
    fs,                  \* the staging tree SEC_DIR
    stack,               \* call stack of download_sec_filings frames
    download_failures,   \* module-level list, line 61
    incomplete_tickers,  \* module-level list, line 62
    rename_failures,     \* module-level list, line 168
    phase, cycles, vfails,      \* history: per ticker state, fetch cycles, failed verifications
    hist,                \* history: requests of the running cycle, delays, directory verified
    vdir, vres, vprev, vedit, edits,  \* verifier harness: directory, verdict, history
    nm,                  \* rename_sec_folders: loop positions and renamed_count
    snap, log, collided, \* history: tree at the start of the pass, bundles handled, rename onto an existing path
    qin, qout,           \* _fiscal_quarter harness: input and result
    zipped               \* zip_data_folder has written data.zip in this run

dlvars == <<stack, download_failures, incomplete_tickers, phase, cycles, vfails, hist>>
vfvars == <<vdir, vres, vprev, vedit, edits>>
nmvars == <<nm, snap, log, collided>>
qvars == <<qin, qout>>

\* rename_sec_folders is not running
NoNamer == [dirs |-> <<>>, forms |-> <<>>, accs |-> <<>>, ticker |-> "", tdir |-> "", form |-> "",
            renamed_count |-> 0, pass |-> 0]
\* history of download_sec_filings before its first request
\*   reqs     the requests of the fetch cycle that is running or was last run
\*   df0      Len(download_failures) when that cycle began
\*   slept    time.sleep ran after the last request
\*   gap      what separated the last request from the one before it
\*   checked  <<ticker, directory>> of the last call of _ticker_filings_ok
NoHist == [reqs |-> <<>>, df0 |-> 0, slept |-> FALSE, gap |-> "first", checked |-> <<>>]
NoQuarter == [m |-> 0, f |-> 0, period_str |-> <<>>, fy_end_str |-> <<>>]

----------------------------------------------------------------------------
(* Static configuration                                                    *)

DELISTED_TICKER_TO_CIK ==
    [t \in {"DFS", "CMA", "SNV", "PNFP"} |->
        CASE t = "DFS"  -> "0001393612"
          [] t = "CMA"  -> "0000028412"
          [] t = "SNV"  -> "0000018349"
          [] t = "PNFP" -> "0001115055"]

filings_config == << <<"10-K", 2>>, <<"10-Q", 8>>, <<"DEF 14A", 2>>, <<"8-K", 8>> >>

max_attempts == 5

FormTypes == {filings_config[i][1] : i \in 1..Len(filings_config)}

\* the limit / expected_count of a form type of the menu
Limit(form) == filings_config[CHOOSE i \in 1..Len(filings_config) : filings_config[i][1] = form][2]

\* mutation: the override table is not consulted
LookupIdentity(ticker) == ticker

\* DELISTED_TICKER_TO_CIK.get(ticker, ticker)
Lookup(ticker) ==
    IF ticker \in DOMAIN DELISTED_TICKER_TO_CIK THEN DELISTED_TICKER_TO_CIK[ticker] ELSE ticker

----------------------------------------------------------------------------
(* Bundles as the archive writes them                                      *)

Digit == 0..9

\* name of an accession directory as downloaded (digits and dashes)
AccName(i) == [kind |-> "acc", id |-> i, ticker |-> "", form |-> "", year |-> <<>>, q |-> 0, suffix |-> 0]

File(path, size) == [path |-> path, isfile |-> TRUE, size |-> size]
SubDir(path)     == [path |-> path, isfile |-> FALSE, size |-> 0]

\* download_details=True: the full submission and the primary document
GoodFiles == {File(<<"full-submission.txt">>, 1), File(<<"primary-document.html">>, 1)}

HeaderLine(label, digits) == [label |-> label, digits |-> digits]

\* header of the i-th most recent filing of a calendar-year filer:
\* periods run backwards one quarter per filing from 2025-09-30
ArchivePeriod(i) ==
    LET back == i - 1
        mIdx == (2 - back) % 4                    \* 0..3 -> months 3, 6, 9, 12
        month == 3 * (mIdx + 1)
        year == 2025 - ((back + 1) \div 4)
    IN  <<2, 0, (year \div 10) % 10, year % 10, month \div 10, month % 10, 3, IF month \in {6, 9} THEN 0 ELSE 1>>

ArchiveLines(i) ==
    << HeaderLine("OTHER", <<>>),
       HeaderLine("PERIOD", ArchivePeriod(i)),
       HeaderLine("FYE", <<1, 2, 3, 1>>) >>

ArchiveBundle(i) ==
    [name |-> AccName(i), files |-> GoodFiles, readable |-> TRUE, lines |-> ArchiveLines(i)]

\* a staged entity directory holding exactly what the menu asks for
CompleteDir == [f \in FormTypes |-> {ArchiveBundle(i) : i \in 1..Limit(f)}]

----------------------------------------------------------------------------
(* _ticker_filings_ok, lines 103-123                                       *)

\* for f in filing.rglob("*"): if f.is_file() and f.stat().st_size == 0
HasEmptyFile(bundle) == \E f \in bundle.files : f.isfile /\ f.size = 0

\* mutation: "at least expected_count" instead of "exactly"
CountAtLeast(n, expected_count) == n >= expected_count

\* len(filing_dirs) != expected_count is the failure
CountOk(n, expected_count) == n = expected_count

\* the loop over filings_config from position i on, returning at the first violation
RECURSIVE FilingsOkFrom(_, _, _)
FilingsOkFrom(tree, dir, i) ==
    IF i > Len(filings_config) THEN "None"
    ELSE LET form_type == filings_config[i][1]
             expected_count == filings_config[i][2]
         IN  IF ~(dir \in DOMAIN tree /\ form_type \in DOMAIN tree[dir]) THEN dir
             ELSE IF ~CountOk(Cardinality(tree[dir][form_type]), expected_count) THEN dir
             ELSE IF \E filing \in tree[dir][form_type] : HasEmptyFile(filing) THEN dir
             ELSE FilingsOkFrom(tree, dir, i + 1)

_ticker_filings_ok(tree, dir) == FilingsOkFrom(tree, dir, 1)

----------------------------------------------------------------------------
(* Verifier harness: _ticker_filings_ok applied to trees that differ from  *)
(* a complete staged directory by a bounded number of edits.               *)

MaxEdits == 2

\* the bundles of one form directory are interchangeable to the verifier:
\* the harness edits the first and the last of them
Editable(form, b) == b.name.id \in {1, Limit(form)}

VDirs == {Lookup("DFS"), Lookup("JPM")}

NoTicker == [t \in {} |-> 0]

VInit ==
    /\ pc = "verify"
    /\ vdir \in VDirs
    /\ fs = [d \in {vdir} |-> CompleteDir]
    /\ vres = "?" /\ vprev = "?" /\ vedit = "none" /\ edits = 0
    /\ stack = <<>> /\ download_failures = <<>> /\ incomplete_tickers = <<>>
    /\ rename_failures = <<>>
    /\ phase = NoTicker /\ cycles = NoTicker /\ vfails = NoTicker /\ hist = NoHist
    /\ nm = NoNamer /\ snap = <<>> /\ log = <<>> /\ collided = FALSE /\ zipped = FALSE
    /\ qin = NoQuarter /\ qout = 0

VEdit(tree, kind) ==
    /\ edits < MaxEdits
    /\ edits' = edits + 1
    /\ fs' = tree
    /\ vprev' = vres /\ vres' = "?" /\ vedit' = kind
    /\ UNCHANGED <<pc, vdir, rename_failures>> /\ UNCHANGED dlvars /\ UNCHANGED zipped
    /\ UNCHANGED nmvars /\ UNCHANGED qvars

WithoutKey(f, k) == [x \in DOMAIN f \ {k} |-> f[x]]

VRemoveEntity ==
    /\ vdir \in DOMAIN fs
    /\ VEdit(WithoutKey(fs, vdir), "rmdir")

VRemoveForm ==
    \E f \in FormTypes :
        /\ vdir \in DOMAIN fs /\ f \in DOMAIN fs[vdir]
        /\ VEdit([fs EXCEPT ![vdir] = WithoutKey(@, f)], "rmform")

VAddBundle ==
    \E f \in FormTypes :
        /\ vdir \in DOMAIN fs /\ f \in DOMAIN fs[vdir]
        /\ LET i == 1 + Cardinality(fs[vdir][f]) + MaxEdits
           IN  VEdit([fs EXCEPT ![vdir][f] = @ \cup {ArchiveBundle(i)}], "add")

VRemoveBundle ==
    \E f \in FormTypes :
        /\ vdir \in DOMAIN fs /\ f \in DOMAIN fs[vdir]
        /\ \E b \in fs[vdir][f] :
               /\ Editable(f, b)
               /\ VEdit([fs EXCEPT ![vdir][f] = @ \ {b}], "remove")

\* one file of one bundle becomes zero-length
VTruncate ==
    \E f \in FormTypes :
        /\ vdir \in DOMAIN fs /\ f \in DOMAIN fs[vdir]
        /\ \E b \in fs[vdir][f] : \E x \in b.files :
               /\ Editable(f, b)
               /\ x.isfile /\ x.size > 0
               /\ LET b2 == [b EXCEPT !.files = (@ \ {x}) \cup {File(x.path, 0)}]
                  IN  VEdit([fs EXCEPT ![vdir][f] = (@ \ {b}) \cup {b2}], "truncate")

\* a subdirectory with one file (empty or not) appears inside a bundle
VAddNested ==
    \E f \in FormTypes : \E size \in {0, 1} :
        /\ vdir \in DOMAIN fs /\ f \in DOMAIN fs[vdir]
        /\ \E b \in fs[vdir][f] :
               /\ Editable(f, b)
               /\ SubDir(<<"exhibits">>) \notin b.files
               /\ LET b2 == [b EXCEPT !.files = @ \cup {SubDir(<<"exhibits">>),
                                                         File(<<"exhibits", "ex99.htm">>, size)}]
                  IN  VEdit([fs EXCEPT ![vdir][f] = (@ \ {b}) \cup {b2}], "nest")

VVerify ==
    /\ vres = "?"
    /\ vres' = _ticker_filings_ok(fs, vdir)
    /\ UNCHANGED <<pc, fs, vdir, vprev, vedit, edits, rename_failures>> /\ UNCHANGED dlvars /\ UNCHANGED zipped
    /\ UNCHANGED nmvars /\ UNCHANGED qvars

VNext ==
    \/ VRemoveEntity \/ VRemoveForm \/ VAddBundle \/ VRemoveBundle
    \/ VTruncate \/ VAddNested \/ VVerify

vars == <<pc, fs, stack, download_failures, incomplete_tickers, rename_failures,
          phase, cycles, vfails, hist, vdir, vres, vprev, vedit, edits,
          nm, snap, log, collided, qin, qout, zipped>>

SpecVerify == VInit /\ [][VNext]_vars

----------------------------------------------------------------------------
(* download_sec_filings, lines 65-101                                      *)

\* the roster read from banks.csv: a delisted ticker and an ordinary one
tickers == <<"DFS", "JPM">>

Roster == {tickers[i] : i \in 1..Len(tickers)}

\* what one dl.get can leave in staging; the archive is opaque, so every
\* outcome is possible at every request
\*   "none"    nothing is written
\*   "short"   one bundle fewer than the limit
\*   "full"    exactly the limit most recent bundles
\*   "shift"   the limit most recent bundles after a new filing appeared
\*   "corrupt" the limit most recent bundles, one of them with an empty file
Outcomes == {"none", "short", "full", "shift", "corrupt"}

\* the forms whose request may go wrong, and the number of requests that may raise
FaultForms == {"10-Q"}
MaxRaise == 1

\* the forms whose request may raise: every form of the menu
RaiseForms == FormTypes

CorruptBundle(i) ==
    [ArchiveBundle(i) EXCEPT !.files = {File(<<"full-submission.txt">>, 1),
                                        File(<<"primary-document.html">>, 0)}]

Written(form, outcome) ==
    CASE outcome = "none"    -> {}
      [] outcome = "short"   -> {ArchiveBundle(i) : i \in 1..(Limit(form) - 1)}
      [] outcome = "full"    -> {ArchiveBundle(i) : i \in 1..Limit(form)}
      [] outcome = "shift"   -> {ArchiveBundle(i) : i \in 2..(Limit(form) + 1)}
      [] outcome = "corrupt" -> {CorruptBundle(1)} \cup {ArchiveBundle(i) : i \in 2..Limit(form)}

\* mutation: a request clears the form directory before it writes
MergeReplace(old, new) == new

\* a bundle written again replaces the staged bundle of the same name;
\* nothing staged is ever removed
Merge(old, new) == {b \in old : \A n \in new : n.name # b.name} \cup new

\* dl.get(form_type, lookup, limit=limit, download_details=True) returning normally
Stage(tree, dir, form, outcome) ==
    LET new == Written(form, outcome)
    IN  IF new = {} THEN tree
        ELSE LET t1 == IF dir \in DOMAIN tree THEN tree ELSE (dir :> <<>>) @@ tree
                 old == IF form \in DOMAIN t1[dir] THEN t1[dir][form] ELSE {}
             IN  [t1 EXCEPT ![dir] = (form :> Merge(old, new)) @@ @]

\* mutation: a retry that verifies again without fetching
FrameNoFetch(ts, attempt_num, retry) ==
    [tickers |-> ts, i |-> 1, fi |-> Len(filings_config) + 1, attempt_num |-> attempt_num, retry |-> retry]

\* a call of download_sec_filings(tickers, attempt_num, retry) at the head of its loops
Frame(ts, attempt_num, retry) ==
    [tickers |-> ts, i |-> 1, fi |-> 1, attempt_num |-> attempt_num, retry |-> retry]

Top == stack[Len(stack)]
SetTop(fr) == [stack EXCEPT ![Len(stack)] = fr]

Running == pc = "download" /\ stack # <<>>

\* one call of dl.get as the history records it
Request(ticker, lookup, form_type, raised) ==
    [ticker |-> ticker, lookup |-> lookup, form_type |-> form_type, raised |-> raised]

\* the history after a request: the cycle's requests so far, and what separated
\* this request from the previous one
Requested(h, first, req, nfail) ==
    [h EXCEPT !.reqs = Append(IF first THEN <<>> ELSE @, req),
              !.df0 = IF first THEN nfail ELSE @,
              !.gap = IF h.reqs = <<>> THEN "first" ELSE IF h.slept THEN "sleep" ELSE "none",
              !.slept = FALSE]

\* mutation: one try around the whole menu, so a raise ends the cycle
AfterRaiseAbort(fi) == Len(filings_config) + 1

\* lines 75-76: the except clause records the failure and the menu loop goes on
AfterRaise(fi) == fi + 1

\* lines 72-76: one request of the menu for the current ticker
Get ==
    /\ Running
    /\ Top.i <= Len(Top.tickers) /\ Top.fi <= Len(filings_config)
    /\ LET ticker == Top.tickers[Top.i]
           lookup == Lookup(ticker)
           form_type == filings_config[Top.fi][1]
       IN  \E raised \in BOOLEAN :
              LET fi == IF raised THEN AfterRaise(Top.fi) ELSE Top.fi + 1
              IN  /\ IF raised
                     THEN /\ form_type \in RaiseForms /\ Len(download_failures) < MaxRaise
                          /\ download_failures' = Append(download_failures, <<ticker, form_type>>)
                          /\ UNCHANGED fs
                     ELSE /\ \E outcome \in Outcomes :
                                /\ outcome = "full" \/ form_type \in FaultForms
                                /\ fs' = Stage(fs, lookup, form_type, outcome)
                          /\ UNCHANGED download_failures
                  /\ hist' = Requested(hist, Top.fi = 1, Request(ticker, lookup, form_type, raised),
                                       Len(download_failures))
                  /\ stack' = SetTop([Top EXCEPT !.fi = fi])
                  /\ cycles' = IF Top.fi = 1 THEN [cycles EXCEPT ![ticker] = @ + 1] ELSE cycles
                  /\ phase' = [phase EXCEPT ![ticker] =
                                  IF fi > Len(filings_config) THEN "VERIFYING" ELSE "FETCHING"]
    /\ UNCHANGED <<pc, incomplete_tickers, rename_failures, vfails>> /\ UNCHANGED vfvars /\ UNCHANGED nmvars /\ UNCHANGED qvars /\ UNCHANGED zipped

\* mutation: "<" instead of "<="
MayRetryStrict(attempt_num) == attempt_num < max_attempts

\* line 83: if attempt_num <= max_attempts
MayRetry(attempt_num) == attempt_num <= max_attempts

\* mutation: the retry re-enters the whole roster
RetryRoster(ticker) == tickers

\* line 86: the list handed to the recursive call, [ticker]
RetryList(ticker) == <<ticker>>

\* mutation: the append of line 89 outside the else branch
PermanentAlways(list, incomplete_ticker, attempt_num) == Append(list, incomplete_ticker)

\* lines 83-89: incomplete_tickers after a failed verification
Permanent(list, incomplete_ticker, attempt_num) ==
    IF MayRetry(attempt_num) THEN list ELSE Append(list, incomplete_ticker)

\* mutation: exhaustion raises, and the exception unwinds every frame
ExhaustedRaise(stk) == <<>>

\* lines 88-90: after the permanent failure is recorded the loop continues
ExhaustedContinue(stk) == [stk EXCEPT ![Len(stk)] = [@ EXCEPT !.i = @ + 1, !.fi = 1]]

\* lines 79-90: verification of the current ticker and what follows from it
Verify ==
    /\ Running
    /\ Top.i <= Len(Top.tickers) /\ Top.fi > Len(filings_config)
    /\ LET ticker == Top.tickers[Top.i]
           lookup == Lookup(ticker)
           incomplete_ticker == _ticker_filings_ok(fs, lookup)
           next == [Top EXCEPT !.i = @ + 1, !.fi = 1]
           again == incomplete_ticker # "None" /\ MayRetry(Top.attempt_num)
       IN  /\ IF incomplete_ticker = "None"
              THEN /\ stack' = SetTop(next)
                   /\ phase' = [phase EXCEPT ![ticker] = "COMPLETE"]
                   /\ UNCHANGED <<incomplete_tickers, vfails>>
              ELSE /\ vfails' = [vfails EXCEPT ![ticker] = @ + 1]
                   /\ incomplete_tickers' = Permanent(incomplete_tickers, incomplete_ticker, Top.attempt_num)
                   /\ IF MayRetry(Top.attempt_num)
                      THEN \* time.sleep(0.5); download_sec_filings([ticker], attempt_num + 1, retry=True)
                           /\ stack' = Append(SetTop(next), Frame(RetryList(ticker), Top.attempt_num + 1, TRUE))
                           /\ phase' = [phase EXCEPT ![ticker] = "RETRYING"]
                      ELSE /\ stack' = ExhaustedContinue(stack)
                           /\ phase' = [phase EXCEPT ![ticker] = "EXHAUSTED"]
           /\ hist' = [hist EXCEPT !.checked = <<ticker, lookup>>,
                                   !.slept = IF again THEN TRUE ELSE @]
    /\ UNCHANGED <<pc, fs, download_failures, rename_failures, cycles>> /\ UNCHANGED vfvars /\ UNCHANGED nmvars /\ UNCHANGED qvars /\ UNCHANGED zipped

\* mutation: the next stage is started without the test of retry
ReturnToRename(retry) == "rename"

\* line 92 and main, lines 233-236: a retry frame returns into the download,
\* the outermost frame returns to main, which goes on to rename_sec_folders
ReturnTo(retry) == IF retry THEN "download" ELSE "rename"

\* the for loop is over: a retry frame returns to its caller (line 92),
\* the outermost frame logs the summary (lines 93-101) and returns to main
Return ==
    /\ Running
    /\ Top.i > Len(Top.tickers)
    /\ stack' = SubSeq(stack, 1, Len(stack) - 1)
    /\ pc' = ReturnTo(Top.retry)
    /\ UNCHANGED <<fs, download_failures, incomplete_tickers, rename_failures,
                   phase, cycles, vfails, hist>>
    /\ UNCHANGED vfvars /\ UNCHANGED nmvars /\ UNCHANGED qvars /\ UNCHANGED zipped

Init ==
    /\ pc = "download"
    /\ fs = <<>>
    /\ stack = <<Frame(tickers, 1, FALSE)>>
    /\ download_failures = <<>> /\ incomplete_tickers = <<>> /\ rename_failures = <<>>
    /\ phase = [t \in Roster |-> "PENDING"]
    /\ cycles = [t \in Roster |-> 0]
    /\ vfails = [t \in Roster |-> 0]
    /\ hist = NoHist
    /\ vdir = "" /\ vres = "?" /\ vprev = "?" /\ vedit = "none" /\ edits = 0
    /\ nm = NoNamer /\ snap = <<>> /\ log = <<>> /\ collided = FALSE /\ zipped = FALSE
    /\ qin = NoQuarter /\ qout = 0

Next == Get \/ Verify \/ Return

Spec == Init /\ [][Next]_vars

----------------------------------------------------------------------------
(* C4: the verdict of _ticker_filings_ok is None exactly for a directory   *)
(* in which every form directory of the menu exists, holds exactly         *)
(* expected_count bundles, and no file at any depth is empty; otherwise it *)
(* is the directory's name.  Truncating one file of a tree whose verdict   *)
(* was None turns the verdict into the directory's name.                   *)

Complete(tree, dir) ==
    /\ dir \in DOMAIN tree
    /\ \A f \in FormTypes :
          /\ f \in DOMAIN tree[dir]
          /\ Cardinality(tree[dir][f]) = Limit(f)
          /\ \A b \in tree[dir][f] : \A x \in b.files : x.isfile => x.size # 0

C4_VerdictIffComplete ==
    vres # "?" =>
        /\ (vres = "None") <=> Complete(fs, vdir)
        /\ vres # "None" => vres = vdir
        /\ (vedit = "truncate" /\ vprev = "None") => vres = vdir

C4_Witness ==
    /\ vres = vdir /\ vedit = "truncate" /\ vprev = "None"
    /\ \A f \in FormTypes : f \in DOMAIN fs[vdir] /\ Cardinality(fs[vdir][f]) = Limit(f)

----------------------------------------------------------------------------
(* Retry controller properties                                             *)

Occurrences(list, x) == Cardinality({i \in 1..Len(list) : list[i] = x})

Settled(t) == phase[t] \in {"COMPLETE", "EXHAUSTED"}

(* C1: an entity whose verification failed k < max_attempts times and then *)
(* succeeded is COMPLETE after exactly k + 1 fetch cycles and is not in    *)
(* incomplete_tickers; fewer than max_attempts failures never exhaust it.  *)
C1_CompleteAfterKPlusOne ==
    \A t \in Roster :
        (Settled(t) /\ vfails[t] < max_attempts) =>
            /\ phase[t] = "COMPLETE"
            /\ cycles[t] = vfails[t] + 1
            /\ Occurrences(incomplete_tickers, Lookup(t)) = 0

C1_Witness ==
    \E t \in Roster :
        phase[t] = "COMPLETE" /\ vfails[t] = max_attempts - 1 /\ cycles[t] = max_attempts

(* C2: an entity whose verification fails on every cycle is EXHAUSTED      *)
(* after exactly max_attempts fetch cycles, and no entity is fetched more  *)
(* than max_attempts times.                                                *)
C2_ExhaustedAfterMaxAttempts ==
    \A t \in Roster :
        /\ cycles[t] <= max_attempts
        /\ phase[t] = "EXHAUSTED" => cycles[t] = max_attempts

(* C3: an exhausted entity is in incomplete_tickers exactly once, whatever *)
(* the depth of the retry recursion, and a complete entity is not in it.   *)
C3_PermanentFailureOnce ==
    \A t \in Roster :
        /\ phase[t] = "EXHAUSTED" => Occurrences(incomplete_tickers, Lookup(t)) = 1
        /\ phase[t] = "COMPLETE" => Occurrences(incomplete_tickers, Lookup(t)) = 0
        /\ (pc = "rename" /\ vfails[t] = cycles[t]) => Occurrences(incomplete_tickers, Lookup(t)) = 1

C3_Witness ==
    /\ pc = "rename"
    /\ \E t, u \in Roster :
          /\ phase[t] = "EXHAUSTED" /\ vfails[t] = cycles[t] /\ cycles[t] > 1
          /\ phase[u] = "COMPLETE" /\ vfails[u] > 0
          /\ incomplete_tickers = <<Lookup(t)>>

(* C14: the state of an entity changes only along the edges                *)
(* PENDING -> FETCHING -> VERIFYING -> {COMPLETE | RETRYING -> FETCHING |  *)
(* EXHAUSTED}; a fetch cycle begins only when every earlier cycle has been *)
(* verified, each cycle is verified exactly once and for the entity that   *)
(* was fetched, and a COMPLETE or EXHAUSTED entity is neither fetched nor  *)
(* verified again.                                                         *)
Edges ==
    { <<"PENDING", "FETCHING">>, <<"FETCHING", "VERIFYING">>, <<"VERIFYING", "COMPLETE">>,
      <<"VERIFYING", "RETRYING">>, <<"RETRYING", "FETCHING">>, <<"VERIFYING", "EXHAUSTED">> }

\* verifications of t so far: the failed ones and the one that made it COMPLETE
Verifications(t) == vfails[t] + IF phase[t] = "COMPLETE" THEN 1 ELSE 0

InCycle(t) == phase[t] \in {"FETCHING", "VERIFYING"}

C14_Step ==
    \A t \in Roster :
        /\ phase'[t] # phase[t] => <<phase[t], phase'[t]>> \in Edges
        /\ Settled(t) => phase'[t] = phase[t] /\ cycles'[t] = cycles[t] /\ vfails'[t] = vfails[t]
        /\ cycles'[t] # cycles[t] => \A u \in Roster : cycles[u] = Verifications(u)
        /\ cycles'[t] = Verifications(t)' + IF InCycle(t)' THEN 1 ELSE 0
        /\ Verifications(t)' # Verifications(t) =>
              /\ phase[t] = "VERIFYING"
              /\ hist'.checked[1] = t
              /\ \A k \in 1..Len(hist.reqs) : hist.reqs[k].ticker = t

C14_RetryStateMachine == [][C14_Step]_vars

\* the run is over, one entity was retried into COMPLETE and another is EXHAUSTED
C14_Witness ==
    /\ stack = <<>>
    /\ \E t, u \in Roster :
          /\ phase[t] = "COMPLETE" /\ vfails[t] >= 2 /\ cycles[t] = vfails[t] + 1
          /\ phase[u] = "EXHAUSTED"

(* C15: every request is for the one entity that is in its cycles: no      *)
(* other entity is fetching, verifying or retrying, the entity requested   *)
(* is not COMPLETE or EXHAUSTED, every entity before it in the roster is   *)
(* COMPLETE or EXHAUSTED and every entity after it is still PENDING; a     *)
(* retry runs on the list of that entity alone, and the first cycle of an  *)
(* entity runs with attempt_num at its initial value 1.                    *)
Active(t) == phase[t] \in {"FETCHING", "VERIFYING", "RETRYING"}

Position(t) == CHOOSE i \in 1..Len(tickers) : tickers[i] = t

C15_Step ==
    hist'.reqs # hist.reqs =>
        LET t == hist'.reqs[Len(hist'.reqs)].ticker
        IN  /\ ~Settled(t)
            /\ \A u \in Roster \ {t} :
                  /\ ~Active(u) /\ phase'[u] = phase[u] /\ cycles'[u] = cycles[u]
                  /\ Position(u) < Position(t) => Settled(u)
                  /\ Position(u) > Position(t) => phase[u] = "PENDING"
            /\ phase[t] = "PENDING" => Top.attempt_num = 1 /\ cycles[t] = 0 /\ vfails[t] = 0
            /\ phase[t] = "RETRYING" => Top.tickers = <<t>> /\ Top.attempt_num = cycles[t] + 1

C15_RetryOneEntity == [][C15_Step]_vars

\* the second entity is in its first cycle, at attempt 1, after the first was retried
C15_Witness ==
    /\ Running /\ Top.attempt_num = 1
    /\ phase[tickers[2]] = "FETCHING" /\ cycles[tickers[2]] = 1
    /\ Settled(tickers[1]) /\ vfails[tickers[1]] >= 1

(* C16: whatever the archive returns, the download phase ends, and when it *)
(* ends every entity of the roster is COMPLETE or EXHAUSTED; in particular *)
(* the entities after an EXHAUSTED one are fetched and verified.           *)
\* the interpreter runs the one thread of the script whenever it can step
FairSpec == Spec /\ WF_vars(Next)

C16_DownloadTerminates == <>(pc = "rename" /\ \A t \in Roster : Settled(t))

\* the download is over, the first entity is EXHAUSTED, the second was verified
C16_Witness ==
    /\ pc = "rename"
    /\ phase[tickers[1]] = "EXHAUSTED"
    /\ phase[tickers[2]] = "COMPLETE" /\ cycles[tickers[2]] >= 1

(* C17: every request but the first of the run is preceded by a delay:     *)
(* time.sleep ran between the previous request and this one.               *)
C17_DelayBetweenRequests == hist.gap # "none"

(* C18: every request uses, and every verification is handed, the          *)
(* identifier of the override table for a ticker that has an entry and the *)
(* ticker itself otherwise; the directory verified is the one the requests *)
(* of that cycle were made for, and staging holds no other directory.      *)
Resolves(ticker, id) ==
    /\ ticker \in DOMAIN DELISTED_TICKER_TO_CIK => id = DELISTED_TICKER_TO_CIK[ticker]
    /\ ticker \notin DOMAIN DELISTED_TICKER_TO_CIK => id = ticker

C18_EntityResolver ==
    /\ \A k \in 1..Len(hist.reqs) : Resolves(hist.reqs[k].ticker, hist.reqs[k].lookup)
    /\ hist.checked # <<>> => Resolves(hist.checked[1], hist.checked[2])
    /\ (hist.checked # <<>> /\ hist.reqs[1].ticker = hist.checked[1]) =>
          \A k \in 1..Len(hist.reqs) : hist.reqs[k].lookup = hist.checked[2]
    /\ \A d \in DOMAIN fs : \E t \in Roster : Resolves(t, d)

\* an overridden ticker was verified and a ticker without an entry is being requested
C18_Witness ==
    /\ hist.checked # <<>> /\ hist.checked[1] \in DOMAIN DELISTED_TICKER_TO_CIK
    /\ hist.checked[2] \in DOMAIN fs
    /\ hist.reqs[1].ticker \notin DOMAIN DELISTED_TICKER_TO_CIK
    /\ hist.reqs[1].lookup \in DOMAIN fs

(* C19: attempt_num is 1 in the outermost call and one more in each retry, *)
(* so during the k-th cycle of an entity it is k; an entity is in          *)
(* incomplete_tickers only if a verification of it failed in a cycle whose *)
(* attempt_num exceeded max_attempts, never while it is <= max_attempts.   *)
C19_RetryStateLifecycle ==
    /\ \A k \in 1..Len(stack) : stack[k].attempt_num = k
    /\ (Running /\ Top.i <= Len(Top.tickers) /\ Top.fi > 1) =>
          cycles[Top.tickers[Top.i]] = Top.attempt_num
    /\ \A t \in Roster :
          /\ Occurrences(incomplete_tickers, Lookup(t)) > 0 =>
                vfails[t] = cycles[t] /\ cycles[t] > max_attempts
          /\ cycles[t] <= max_attempts => Occurrences(incomplete_tickers, Lookup(t)) = 0

\* an entity was logged as a permanent failure in the cycle after max_attempts
C19_Witness ==
    \E t \in Roster :
        /\ Occurrences(incomplete_tickers, Lookup(t)) = 1
        /\ cycles[t] = max_attempts + 1 /\ vfails[t] = max_attempts + 1
        /\ hist.checked = <<t, Lookup(t)>>

----------------------------------------------------------------------------
(* Document fetcher                                                        *)

\* the failure records the requests of a cycle append, in request order
FailureRecords(reqs) ==
    LET bad == SelectSeq(reqs, LAMBDA r : r.raised)
    IN  [k \in 1..Len(bad) |-> <<bad[k].ticker, bad[k].form_type>>]

\* the next step is the verification that closes the cycle
CycleOver == Running /\ Top.i <= Len(Top.tickers) /\ Top.fi > Len(filings_config)

(* C12: in every fetch cycle, whichever requests raise, the requirements   *)
(* of the menu are requested once each in declaration order for the same   *)
(* entity, the cycle is verified only after the whole menu was requested,  *)
(* and the cycle appends exactly one (ticker, form) failure record per     *)
(* raising request and nothing else.                                       *)
C12_FetcherFaultIsolation ==
    /\ Len(hist.reqs) <= Len(filings_config)
    /\ \A k \in 1..Len(hist.reqs) :
          /\ hist.reqs[k].form_type = filings_config[k][1]
          /\ hist.reqs[k].ticker = hist.reqs[1].ticker
    /\ CycleOver => Len(hist.reqs) = Len(filings_config)
    /\ hist.df0 <= Len(download_failures)
    /\ SubSeq(download_failures, hist.df0 + 1, Len(download_failures)) = FailureRecords(hist.reqs)

\* a cycle in which a request before the last one raised is about to be verified
C12_Witness ==
    /\ CycleOver
    /\ \E k \in 1..(Len(filings_config) - 1) : hist.reqs[k].raised
    /\ ~hist.reqs[Len(filings_config)].raised
    /\ Len(download_failures) = hist.df0 + 1

----------------------------------------------------------------------------
(* _parse_filing_header, lines 125-155                                     *)

\* Python's None for a header field (a captured field is never empty)
None == <<>>

\* line 135: if i >= 30: break
HeaderLines == 30

\* re.search(r"CONFORMED PERIOD OF REPORT:\s+(\d{8})", line)
MatchPeriod(line) ==
    IF line.label = "PERIOD" /\ Len(line.digits) >= 8 THEN SubSeq(line.digits, 1, 8) ELSE None

\* re.search(r"FISCAL YEAR END:\s+(\d{4})", line)
MatchFyEnd(line) ==
    IF line.label = "FYE" /\ Len(line.digits) >= 4 THEN SubSeq(line.digits, 1, 4) ELSE None

\* the loop of lines 134-149 from the line of index i (0-based) on
RECURSIVE ScanHeader(_, _, _, _)
ScanHeader(lines, i, period, fy_end) ==
    IF i >= Len(lines) \/ i >= HeaderLines THEN <<period, fy_end>>
    ELSE LET line == lines[i + 1]
             p == IF period = None THEN MatchPeriod(line) ELSE period
             f == IF fy_end = None THEN MatchFyEnd(line) ELSE fy_end
         IN  IF p # None /\ f # None THEN <<p, f>>
             ELSE ScanHeader(lines, i + 1, p, f)

\* raised: open() failed, period and fy_end are unbound at the return of line 155
_parse_filing_header(bundle) ==
    IF ~bundle.readable
    THEN [raised |-> TRUE, period |-> None, fy_end |-> None]
    ELSE LET r == ScanHeader(bundle.lines, 0, None, None)
         IN  [raised |-> FALSE, period |-> r[1], fy_end |-> r[2]]

----------------------------------------------------------------------------
(* _fiscal_quarter, lines 157-166                                          *)

Abs(x) == IF x < 0 THEN -x ELSE x

\* int() of a string of two digits
Int2(s) == 10 * s[1] + s[2]

\* mutation: the slice [6:8], the day, instead of [4:6]
PeriodDay(period_str) == Int2(SubSeq(period_str, 7, 8))

\* line 163: int(period_str[4:6])
PeriodMonth(period_str) == Int2(SubSeq(period_str, 5, 6))

\* line 164: int(fy_end_str[:2])
FyEndMonth(fy_end_str) == Int2(SubSeq(fy_end_str, 1, 2))

\* mutation: a missing fiscal year end is taken to be December
_fiscal_quarter_default(period_str, fy_end_str) ==
    IF period_str = None THEN [raised |-> TRUE, q |-> 0]
    ELSE LET fy == IF fy_end_str = None THEN <<1, 2, 3, 1>> ELSE fy_end_str
         IN  [raised |-> FALSE,
              q |-> 4 - ((Abs(PeriodMonth(period_str) - FyEndMonth(fy)) % 12) \div 3)]

\* raised: slicing None is a TypeError
_fiscal_quarter(period_str, fy_end_str) ==
    IF period_str = None \/ fy_end_str = None THEN [raised |-> TRUE, q |-> 0]
    ELSE LET period_month == PeriodMonth(period_str)
             fy_end_month == FyEndMonth(fy_end_str)
         IN  [raised |-> FALSE, q |-> 4 - ((Abs(period_month - fy_end_month) % 12) \div 3)]

----------------------------------------------------------------------------
(* Harness for _fiscal_quarter: period and fiscal-year-end strings built    *)
(* from a month and a day.                                                  *)

Months == 1..12
PeriodYears == {<<2, 0, 2, 4>>, <<2, 0, 2, 5>>}
Days == {<<2, 8>>, <<3, 0>>}

TwoDigits(n) == <<n \div 10, n % 10>>

QInit ==
    /\ pc = "quarter"
    /\ \E y \in PeriodYears, m \in Months, f \in Months, d \in Days, e \in Days :
          qin = [m |-> m, f |-> f, period_str |-> y \o TwoDigits(m) \o d,
                 fy_end_str |-> TwoDigits(f) \o e]
    /\ qout = 0
    /\ fs = <<>> /\ stack = <<>>
    /\ download_failures = <<>> /\ incomplete_tickers = <<>> /\ rename_failures = <<>>
    /\ phase = NoTicker /\ cycles = NoTicker /\ vfails = NoTicker /\ hist = NoHist
    /\ vdir = "" /\ vres = "?" /\ vprev = "?" /\ vedit = "none" /\ edits = 0
    /\ nm = NoNamer /\ snap = <<>> /\ log = <<>> /\ collided = FALSE /\ zipped = FALSE

QCompute ==
    /\ pc = "quarter" /\ qout = 0
    /\ qout' = _fiscal_quarter(qin.period_str, qin.fy_end_str).q
    /\ UNCHANGED <<pc, fs, rename_failures, qin>>
    /\ UNCHANGED dlvars /\ UNCHANGED zipped /\ UNCHANGED vfvars /\ UNCHANGED nmvars

QNext == QCompute

SpecQuarter == QInit /\ [][QNext]_vars

(* C8: for a period month m that ends a quarter of the fiscal year ending  *)
(* in month f, the quarter is 4 when m = f and 3, 2, 1 when m lies 3, 6, 9 *)
(* months before f, counted cyclically.                                    *)
C8_TrueFiscalQuarter ==
    (qout # 0 /\ (qin.f - qin.m) % 3 = 0) =>
        qout = 4 - (((qin.f - qin.m) % 12) \div 3)

(* C9: the quarter is 4 - ((|m - f| mod 12) div 3), a value in 1..4; it is *)
(* 4 for (12, 12) and (1, 1) and 3 for (9, 12).                            *)
C9_QuarterFormula ==
    qout # 0 =>
        /\ qout = 4 - ((Abs(qin.m - qin.f) % 12) \div 3)
        /\ qout \in 1..4
        /\ (qin.m = 12 /\ qin.f = 12) => qout = 4
        /\ (qin.m = 1 /\ qin.f = 1) => qout = 4
        /\ (qin.m = 9 /\ qin.f = 12) => qout = 3

C9_Witness == qout = 3 /\ qin.m = 9 /\ qin.f = 12

----------------------------------------------------------------------------
(* rename_sec_folders, lines 170-211                                       *)

\* sorted() compares the names as strings; the names of the entity and form
\* directories that occur, in that order
DirOrder == <<"0000018349", "0000028412", "0001115055", "0001393612",
              "CMA", "DFS", "JPM", "PNFP", "SNV">>
FormOrder == <<"10-K", "10-Q", "8-K", "DEF 14A">>

Rank(order, x) == CHOOSE i \in 1..Len(order) : order[i] = x
DirLess(a, b) == Rank(DirOrder, a) < Rank(DirOrder, b)
FormLess(a, b) == Rank(FormOrder, a) < Rank(FormOrder, b)

\* lexicographic order of two sequences of numbers, a proper prefix first
RECURSIVE SeqLess(_, _)
SeqLess(s, t) ==
    IF t = <<>> THEN FALSE
    ELSE IF s = <<>> THEN TRUE
    ELSE IF Head(s) # Head(t) THEN Head(s) < Head(t)
    ELSE SeqLess(Tail(s), Tail(t))

\* the decimal digits of str(n)
RECURSIVE Decimal(_)
Decimal(n) == IF n < 10 THEN <<n>> ELSE Append(Decimal(n \div 10), n % 10)

\* f"{ticker}_{form_clean}_{year}_Q{quarter}", and with f"_{suffix}" when suffix >= 2
Friendly(ticker, form_clean, year, quarter, suffix) ==
    [kind |-> "friendly", id |-> 0, ticker |-> ticker, form |-> form_clean,
     year |-> year, q |-> quarter, suffix |-> suffix]

\* the characters that decide the order of two friendly names of one form
\* directory (same ticker and form): the year, the quarter and the suffix text
FriendlyKey(n) == n.year \o <<n.q>> \o (IF n.suffix = 0 THEN <<>> ELSE <<-1>> \o Decimal(n.suffix))

\* string order of two bundle names of one form directory: accession numbers
\* (fixed width, digits first) before friendly names (a letter first)
NameLess(a, b) ==
    IF a.kind = "acc" /\ b.kind = "acc" THEN a.id < b.id
    ELSE IF a.kind = "acc" THEN TRUE
    ELSE IF b.kind = "acc" THEN FALSE
    ELSE SeqLess(FriendlyKey(a), FriendlyKey(b))

\* the entries of a directory, in no particular order
RECURSIVE Listing(_)
Listing(S) == IF S = {} THEN <<>> ELSE LET x == CHOOSE x \in S : TRUE IN <<x>> \o Listing(S \ {x})

\* sorted(d.iterdir()) for SEC_DIR, an entity directory and a form directory
SortedDirs(S) == SortSeq(Listing(S), DirLess)
SortedForms(S) == SortSeq(Listing(S), FormLess)
SortedNames(S) == SortSeq(Listing(S), NameLess)

\* form_type.replace(" ", "").replace("/", "-") on the form types of the menu
FormClean(form_type) == IF form_type = "DEF 14A" THEN "DEF14A" ELSE form_type

Names(bundles) == {b.name : b \in bundles}
BundleNamed(bundles, name) == CHOOSE b \in bundles : b.name = name

\* the while loop of lines 198-199
RECURSIVE FreeSuffix(_, _, _, _, _, _)
FreeSuffix(existing, ticker, form_clean, year, quarter, suffix) ==
    IF Friendly(ticker, form_clean, year, quarter, suffix) \in existing
    THEN FreeSuffix(existing, ticker, form_clean, year, quarter, suffix + 1)
    ELSE suffix

\* mutation: no collision handling, the candidate is used as it is
NewPathUnchecked(existing, ticker, form_clean, year, quarter) ==
    Friendly(ticker, form_clean, year, quarter, 0)

\* mutation: the suffixes start at 1
NewPathFromOne(existing, ticker, form_clean, year, quarter) ==
    IF Friendly(ticker, form_clean, year, quarter, 0) \in existing
    THEN Friendly(ticker, form_clean, year, quarter,
                  FreeSuffix(existing, ticker, form_clean, year, quarter, 1))
    ELSE Friendly(ticker, form_clean, year, quarter, 0)

\* lines 193-200: new_path for the candidate name
NewPath(existing, ticker, form_clean, year, quarter) ==
    IF Friendly(ticker, form_clean, year, quarter, 0) \in existing
    THEN Friendly(ticker, form_clean, year, quarter,
                  FreeSuffix(existing, ticker, form_clean, year, quarter, 2))
    ELSE Friendly(ticker, form_clean, year, quarter, 0)

\* lines 187-200: the path a bundle is to be renamed to, or the exception raised
Target(existing, ticker, form_type, bundle) ==
    LET hdr == _parse_filing_header(bundle)
        fq == _fiscal_quarter(hdr.period, hdr.fy_end)
    IN  IF hdr.raised THEN [raised |-> TRUE, err |-> "UnboundLocalError", name |-> bundle.name]
        ELSE IF hdr.period = None \/ fq.raised
             THEN [raised |-> TRUE, err |-> "TypeError", name |-> bundle.name]
        ELSE [raised |-> FALSE, err |-> "",
              name |-> NewPath(existing, ticker, FormClean(form_type), SubSeq(hdr.period, 1, 4), fq.q)]

CikDirs == {DELISTED_TICKER_TO_CIK[k] : k \in DOMAIN DELISTED_TICKER_TO_CIK}

\* mutation: the directory keeps the identifier as its ticker
TickerOfCikIdentity(cik) == cik

\* next(k for k, v in DELISTED_TICKER_TO_CIK.items() if v == ticker)
TickerOfCik(cik) == CHOOSE k \in DOMAIN DELISTED_TICKER_TO_CIK : DELISTED_TICKER_TO_CIK[k] = cik

\* line 172-173: renamed_count = 0 and the sorted listing of SEC_DIR
NStart ==
    /\ pc = "rename"
    /\ pc' = "rn_dirs"
    /\ nm' = [NoNamer EXCEPT !.dirs = SortedDirs(DOMAIN fs), !.pass = nm.pass + 1]
    /\ snap' = fs
    /\ UNCHANGED <<fs, rename_failures, log, collided>>
    /\ UNCHANGED dlvars /\ UNCHANGED zipped /\ UNCHANGED vfvars /\ UNCHANGED qvars

\* lines 173-182: the next entity directory, renamed to its ticker when it is a CIK
NTickerDir ==
    /\ pc = "rn_dirs" /\ nm.dirs # <<>>
    /\ LET d == Head(nm.dirs)
           isCik == d \in CikDirs
           ticker == IF isCik THEN TickerOfCik(d) ELSE d
       IN  IF isCik /\ ticker \in DOMAIN fs /\ DOMAIN fs[ticker] # {}
           THEN \* Path.rename onto a directory that is not empty: OSError, not caught
                /\ pc' = "crashed"
                /\ UNCHANGED <<fs, nm>>
           ELSE /\ fs' = IF isCik THEN (ticker :> fs[d]) @@ WithoutKey(WithoutKey(fs, d), ticker) ELSE fs
                /\ nm' = [nm EXCEPT !.dirs = Tail(@), !.ticker = ticker, !.tdir = ticker,
                                    !.forms = SortedForms(DOMAIN fs[d])]
                /\ pc' = "rn_forms"
    /\ UNCHANGED <<rename_failures, snap, log, collided>>
    /\ UNCHANGED dlvars /\ UNCHANGED zipped /\ UNCHANGED vfvars /\ UNCHANGED qvars

\* lines 182-185: the next form directory and its sorted listing
NFormDir ==
    /\ pc = "rn_forms" /\ nm.forms # <<>>
    /\ nm' = [nm EXCEPT !.forms = Tail(@), !.form = Head(nm.forms),
                        !.accs = SortedNames(Names(fs[nm.tdir][Head(nm.forms)]))]
    /\ pc' = "rn_accs"
    /\ UNCHANGED <<fs, rename_failures, snap, log, collided>>
    /\ UNCHANGED dlvars /\ UNCHANGED zipped /\ UNCHANGED vfvars /\ UNCHANGED qvars

\* the rename failures the file system may answer with
MaxRenameErrors == 1
RenameErrors == Cardinality({i \in 1..Len(log) : log[i].err = "OSError"})

Entry(old, new, outcome, err, hdr) ==
    [pass |-> nm.pass, dir |-> nm.tdir, form |-> nm.form, old |-> old, new |-> new,
     outcome |-> outcome, err |-> err, period |-> hdr.period, fy_end |-> hdr.fy_end]

\* mutation: one try around the whole listing, so a failure ends the form directory
AfterFailureBreak(accs) == <<>>

\* lines 204-205: the except clause records the failure and the listing goes on
AfterFailure(accs) == Tail(accs)

\* mutation: renamed_count += 1 placed before the rename
CountBeforeRename(n, err) == IF err = "OSError" THEN n + 1 ELSE n

\* lines 201-202: an exception raised up to the rename skips renamed_count += 1
CountOnFailure(n, err) == n

\* lines 185-205: one accession directory of the listing
NRename ==
    /\ pc = "rn_accs" /\ nm.accs # <<>>
    /\ LET name == Head(nm.accs)
           bundles == fs[nm.tdir][nm.form]
           bundle == BundleNamed(bundles, name)
           hdr == _parse_filing_header(bundle)
           target == Target(Names(bundles), nm.ticker, nm.form, bundle)
           failed(err) ==
               /\ rename_failures' = Append(rename_failures, <<name, err>>)
               /\ log' = Append(log, Entry(name, name, "failed", err, hdr))
               /\ nm' = [nm EXCEPT !.accs = AfterFailure(@), !.renamed_count = CountOnFailure(@, err)]
               /\ UNCHANGED fs
       IN  IF target.raised
           THEN failed(target.err) /\ UNCHANGED collided
           ELSE LET exists == target.name \in Names(bundles)
                    onto == IF exists THEN {BundleNamed(bundles, target.name)} ELSE {}
                    \* rename(2) replaces an empty directory and refuses any other
                    refused == \E o \in onto : o.files # {}
                IN  /\ collided' = (collided \/ exists)
                    /\ \/ /\ ~refused
                          /\ fs' = [fs EXCEPT ![nm.tdir][nm.form] =
                                       ((@ \ onto) \ {bundle}) \cup {[bundle EXCEPT !.name = target.name]}]
                          /\ nm' = [nm EXCEPT !.accs = Tail(@), !.renamed_count = @ + 1]
                          /\ log' = Append(log, Entry(name, target.name, "renamed", "", hdr))
                          /\ UNCHANGED rename_failures
                       \/ /\ refused \/ RenameErrors < MaxRenameErrors
                          /\ failed("OSError")
    /\ UNCHANGED <<pc, snap>>
    /\ UNCHANGED dlvars /\ UNCHANGED zipped /\ UNCHANGED vfvars /\ UNCHANGED qvars

\* the for loop of line 185 is over
NFormDone ==
    /\ pc = "rn_accs" /\ nm.accs = <<>>
    /\ pc' = "rn_forms"
    /\ UNCHANGED <<fs, rename_failures>> /\ UNCHANGED nmvars
    /\ UNCHANGED dlvars /\ UNCHANGED zipped /\ UNCHANGED vfvars /\ UNCHANGED qvars

\* the for loop of line 182 is over
NTickerDone ==
    /\ pc = "rn_forms" /\ nm.forms = <<>>
    /\ pc' = "rn_dirs"
    /\ UNCHANGED <<fs, rename_failures>> /\ UNCHANGED nmvars
    /\ UNCHANGED dlvars /\ UNCHANGED zipped /\ UNCHANGED vfvars /\ UNCHANGED qvars

\* lines 207-211: the summary; rename_sec_folders returns
NFinish ==
    /\ pc = "rn_dirs" /\ nm.dirs = <<>>
    /\ pc' = "renamed"
    /\ UNCHANGED <<fs, rename_failures>> /\ UNCHANGED nmvars
    /\ UNCHANGED dlvars /\ UNCHANGED zipped /\ UNCHANGED vfvars /\ UNCHANGED qvars

----------------------------------------------------------------------------
(* Harness for rename_sec_folders: up to MaxPasses passes over a staged    *)
(* tree of one entity whose bundles carry the headers of HeaderKinds.      *)

MaxBundles == 3
MaxPasses == 2

HeaderKinds == {"mar", "jun", "nofye", "noperiod", "unreadable"}

HeaderOf(kind) ==
    CASE kind = "mar"        -> <<HeaderLine("OTHER", <<>>), HeaderLine("PERIOD", <<2, 0, 2, 5, 0, 3, 3, 1>>),
                                  HeaderLine("FYE", <<1, 2, 3, 1>>)>>
      [] kind = "jun"        -> <<HeaderLine("FYE", <<1, 2, 3, 1>>), HeaderLine("PERIOD", <<2, 0, 2, 5, 0, 6, 3, 0>>)>>
      [] kind = "nofye"      -> <<HeaderLine("PERIOD", <<2, 0, 2, 5, 0, 3, 3, 1>>), HeaderLine("OTHER", <<>>)>>
      [] kind = "noperiod"   -> <<HeaderLine("FYE", <<1, 2, 3, 1>>)>>
      [] kind = "unreadable" -> <<>>

StagedBundle(i, kind) ==
    [name |-> AccName(i),
     files |-> IF kind = "unreadable" THEN {File(<<"primary-document.html">>, 1)} ELSE GoodFiles,
     readable |-> kind # "unreadable",
     lines |-> HeaderOf(kind)]

NamerDirs == {Lookup("DFS"), Lookup("JPM")}

NInit ==
    /\ pc = "rename"
    /\ \E d \in NamerDirs : \E n \in 1..MaxBundles : \E kinds \in [1..n -> HeaderKinds] :
          fs = (d :> ("8-K" :> {StagedBundle(i, kinds[i]) : i \in 1..n}
                      @@ "DEF 14A" :> {StagedBundle(1, "mar")}))
    /\ stack = <<>> /\ download_failures = <<>> /\ incomplete_tickers = <<>>
    /\ rename_failures = <<>>
    /\ phase = NoTicker /\ cycles = NoTicker /\ vfails = NoTicker /\ hist = NoHist
    /\ vdir = "" /\ vres = "?" /\ vprev = "?" /\ vedit = "none" /\ edits = 0
    /\ nm = NoNamer /\ snap = <<>> /\ log = <<>> /\ collided = FALSE /\ zipped = FALSE
    /\ qin = NoQuarter /\ qout = 0

\* the pipeline is run again on the tree the previous pass left
NAgain ==
    /\ pc = "renamed" /\ nm.pass < MaxPasses
    /\ pc' = "rename"
    /\ UNCHANGED <<fs, rename_failures>> /\ UNCHANGED nmvars
    /\ UNCHANGED dlvars /\ UNCHANGED zipped /\ UNCHANGED vfvars /\ UNCHANGED qvars

\* the script is run again and its download stages the DEF 14A filings of the
\* entity under the identifier the resolver gives, before the next pass
\* (the harness lets the archive answer the run after the first pass only)
NRestage ==
    /\ pc = "renamed" /\ nm.pass = 1 /\ nm.pass < MaxPasses
    /\ \E t \in DOMAIN fs :
          fs' = Stage(fs, Lookup(t), "DEF 14A", "full")
    /\ snap' = fs'
    /\ pc' = "rename"
    /\ UNCHANGED <<rename_failures, nm, log, collided>>
    /\ UNCHANGED dlvars /\ UNCHANGED zipped /\ UNCHANGED vfvars /\ UNCHANGED qvars

NNext ==
    \/ NStart \/ NTickerDir \/ NFormDir \/ NRename
    \/ NFormDone \/ NTickerDone \/ NFinish \/ NAgain \/ NRestage

SpecNamer == NInit /\ [][NNext]_vars

----------------------------------------------------------------------------
(* main, lines 229-244: the download, one pass of rename_sec_folders, then *)
(* the gate and zip_data_folder.  To keep the run small the archive of     *)
(* this specification answers a request in full, with nothing or with an   *)
(* exception; it raises in the first cycle of an entity only and stages    *)
(* nothing new after the second; the file system may refuse the first      *)
(* rename of the pass only.                                                *)

\* every staged form directory holds the bundles of one full answer
Tidy(tree) ==
    \A d \in DOMAIN tree : \A f \in DOMAIN tree[d] :
        /\ Cardinality(tree[d][f]) = Limit(f)
        /\ \A b \in tree[d][f] : ~HasEmptyFile(b)

\* the cycle after which the archive of this specification stages nothing new
LastRecovery == 2

MGet ==
    /\ Get
    /\ Tidy(fs')
    /\ download_failures' # download_failures => Top.attempt_num = 1
    /\ Top.attempt_num > LastRecovery => fs' = fs

MRename == NRename /\ (rename_failures' # rename_failures => log = <<>>)

\* mutation: the gate does not look at download_failures
BlockedNoFetch(rf, df, it) == Len(rf) # 0 \/ Len(it) # 0

\* line 238: if len(rename_failures) or len(download_failures) or len(incomplete_tickers)
Blocked(rf, df, it) == Len(rf) # 0 \/ Len(df) # 0 \/ Len(it) # 0

\* lines 238-244: the gate, zip_data_folder when nothing failed, the final log
MainGate ==
    /\ pc = "renamed"
    /\ pc' = "done"
    /\ zipped' = ~Blocked(rename_failures, download_failures, incomplete_tickers)
    /\ UNCHANGED <<fs, rename_failures>> /\ UNCHANGED nmvars
    /\ UNCHANGED dlvars /\ UNCHANGED vfvars /\ UNCHANGED qvars

MainNext ==
    \/ MGet \/ Verify \/ Return
    \/ NStart \/ NTickerDir \/ NFormDir \/ MRename
    \/ NFormDone \/ NTickerDone \/ NFinish
    \/ MainGate

SpecMain == Init /\ [][MainNext]_vars

----------------------------------------------------------------------------
(* Namer properties                                                        *)

\* the key an entity directory of the tree at the start of the pass has now
SnapDir(dir) == IF dir \in DOMAIN snap THEN dir ELSE Lookup(dir)

SameCandidate(a, b) == a.year = b.year /\ a.q = b.q

\* every bundle of the tree has a friendly name
Normalised(tree) ==
    \A d \in DOMAIN tree : \A f \in DOMAIN tree[d] : \A n \in Names(tree[d][f]) : n.kind = "friendly"

(* C5: a second pass over a tree that the first pass fully normalised      *)
(* renames nothing: renamed_count is 0 and every bundle keeps its path.    *)
C5_SecondPassNoOp ==
    (/\ nm.pass = 2
     /\ \A i \in 1..Len(log) : log[i].pass = 1 => log[i].outcome = "renamed"
     /\ Normalised(snap)) =>
        /\ nm.renamed_count = 0
        /\ fs = snap

(* C6: the bundles of one form directory that a pass renames to the same   *)
(* candidate name, none of whose names existed when the pass began, get    *)
(* name, name_2, name_3, ... in the sorted order of their old names.       *)
C6_SuffixesInListingOrder ==
    \A i \in 1..Len(log) :
        LET e == log[i]
            same(x) == /\ x.pass = e.pass /\ x.dir = e.dir /\ x.form = e.form
                       /\ x.outcome = "renamed" /\ SameCandidate(x.new, e.new)
            group == SelectSeq(log, same)
            before == Names(snap[SnapDir(e.dir)][e.form])
        IN  (/\ e.pass = nm.pass /\ e.outcome = "renamed"
             /\ \A n \in before : n.kind = "friendly" => ~SameCandidate(n, e.new)) =>
                \A k \in 1..Len(group) :
                    /\ group[k].new.suffix = IF k = 1 THEN 0 ELSE k
                    /\ k > 1 => NameLess(group[k - 1].old, group[k].old)

C6_Witness ==
    /\ pc = "renamed" /\ nm.pass = 1
    /\ \E i, j, k \in 1..Len(log) :
          /\ i < j /\ j < k
          /\ log[i].form = "8-K" /\ log[j].form = "8-K" /\ log[k].form = "8-K"
          /\ log[i].new.kind = "friendly" /\ log[i].new.suffix = 0
          /\ log[j].new = [log[i].new EXCEPT !.suffix = 2]
          /\ log[k].new = [log[i].new EXCEPT !.suffix = 3]

(* C7: no rename of a pass targets an existing path, the bundle names of   *)
(* every form directory are pairwise distinct, and every form directory    *)
(* holds as many bundles as when the pass began.                           *)
C7_CollisionFree ==
    /\ ~collided
    /\ \A d \in DOMAIN fs : \A f \in DOMAIN fs[d] :
          Cardinality(Names(fs[d][f])) = Cardinality(fs[d][f])
    /\ \A d \in DOMAIN snap : \A f \in DOMAIN snap[d] :
          LET now == IF d \in DOMAIN fs THEN d ELSE TickerOfCik(d)
          IN  Cardinality(fs[now][f]) = Cardinality(snap[d][f])

C7_Witness ==
    /\ pc = "renamed"
    /\ \E i \in 1..Len(log) : log[i].outcome = "renamed" /\ log[i].new.suffix >= 2

(* C10: a bundle whose header gives no fiscal year end or no period is not *)
(* renamed: it keeps its name, and the rename failures recorded are, in    *)
(* order, exactly the bundles that were not renamed, one record each.      *)
C10_FailsClosed ==
    LET failed(e) == e.outcome = "failed"
        failures == SelectSeq(log, failed)
    IN  /\ \A i \in 1..Len(log) :
              (log[i].period = None \/ log[i].fy_end = None) =>
                  /\ log[i].outcome = "failed"
                  /\ log[i].new = log[i].old
                  /\ log[i].old \in Names(fs[log[i].dir][log[i].form])
        /\ Len(rename_failures) = Len(failures)
        /\ \A k \in 1..Len(failures) : rename_failures[k] = <<failures[k].old, failures[k].err>>

C10_Witness ==
    /\ pc = "renamed"
    /\ \E i, j \in 1..Len(log) :
          /\ log[i].fy_end = None /\ log[i].period # None /\ log[i].err = "TypeError"
          /\ log[j].period = None /\ log[j].fy_end # None /\ log[j].err = "TypeError"
          /\ Len(rename_failures) = 2

(* C11: no failure of a single item ends the run: a pass of the Namer that *)
(* has begun is never ended by an exception, so it goes on to the          *)
(* remaining directories and bundles and to its summary.                   *)
C11_NoItemAbortsRun == pc # "crashed"

(* C13: bundles are renamed only inside a directory named by the symbol,   *)
(* every renamed bundle's name starts with that symbol, and when a pass    *)
(* has ended no entity directory is named by a registry identifier.        *)
C13_SymbolKeyedOutput ==
    /\ pc \in {"rn_forms", "rn_accs"} => nm.tdir \notin CikDirs /\ nm.tdir \in DOMAIN fs
    /\ \A i \in 1..Len(log) :
          /\ log[i].dir \notin CikDirs
          /\ log[i].outcome = "renamed" => log[i].new.ticker = log[i].dir
    /\ pc \in {"renamed", "crashed"} => DOMAIN fs \cap CikDirs = {}

(* C20: in one pass no bundle is attempted twice, under its old or its new *)
(* name; a bundle whose rename failed is still in its form directory under *)
(* its old name, unchanged, and has exactly one failure record; and when   *)
(* the pass reaches its summary every bundle that was staged when it began *)
(* has been attempted exactly once, whatever failed before it.             *)
C20_RenameFailureIsolated ==
    LET thisPass(e) == e.pass = nm.pass
        cur == SelectSeq(log, thisPass)
        failed(e) == e.outcome = "failed"
    IN  /\ \A i, j \in 1..Len(cur) :
              (i < j /\ cur[i].dir = cur[j].dir /\ cur[i].form = cur[j].form) =>
                  cur[j].old \notin {cur[i].old, cur[i].new}
        /\ \A i \in 1..Len(cur) :
              failed(cur[i]) =>
                  LET e == cur[i]
                  IN  /\ e.new = e.old
                      /\ e.old \in Names(fs[e.dir][e.form])
                      /\ BundleNamed(fs[e.dir][e.form], e.old) =
                            BundleNamed(snap[SnapDir(e.dir)][e.form], e.old)
        /\ Len(rename_failures) = Len(SelectSeq(log, failed))
        /\ pc = "renamed" =>
              \A d \in DOMAIN snap : \A f \in DOMAIN snap[d] : \A n \in Names(snap[d][f]) :
                  Cardinality({i \in 1..Len(cur) :
                      SnapDir(cur[i].dir) = d /\ cur[i].form = f /\ cur[i].old = n}) = 1

\* a pass reached its summary after a rename was refused by the file system,
\* and bundles of the same and of the next form directory were renamed after it
C20_Witness ==
    /\ pc = "renamed"
    /\ \E i, j, k \in 1..Len(log) :
          /\ i < j /\ j < k
          /\ log[i].pass = nm.pass /\ log[i].outcome = "failed" /\ log[i].err = "OSError"
          /\ log[j].pass = nm.pass /\ log[j].outcome = "renamed" /\ log[j].form = log[i].form
          /\ log[k].pass = nm.pass /\ log[k].outcome = "renamed" /\ log[k].form # log[i].form

----------------------------------------------------------------------------
(* Header extraction, accounting and the resolver round trip               *)

\* the lines _parse_filing_header may look at
HeadOf(lines) == SubSeq(lines, 1, IF Len(lines) < HeaderLines THEN Len(lines) ELSE HeaderLines)

\* the value of the first line of the head that matches, or None
FirstPeriod(lines) ==
    LET hits == {i \in 1..Len(HeadOf(lines)) : MatchPeriod(lines[i]) # None}
    IN  IF hits = {} THEN None ELSE MatchPeriod(lines[CHOOSE i \in hits : \A j \in hits : i <= j])

FirstFyEnd(lines) ==
    LET hits == {i \in 1..Len(HeadOf(lines)) : MatchFyEnd(lines[i]) # None}
    IN  IF hits = {} THEN None ELSE MatchFyEnd(lines[CHOOSE i \in hits : \A j \in hits : i <= j])

\* a pass is running or has just ended
InPass == pc \in {"rn_dirs", "rn_forms", "rn_accs", "renamed", "crashed"}

\* the bundle a log entry of the running pass was made for, as the pass found it
Handled(e) == BundleNamed(snap[SnapDir(e.dir)][e.form], e.old)

Bundles(tree) ==
    UNION {UNION {{<<d, f, n>> : n \in Names(tree[d][f])} : f \in DOMAIN tree[d]} : d \in DOMAIN tree}

(* C24: in a pass every bundle handled so far is either renamed, and then  *)
(* counted once in renamed_count and found at its new path, or failed,     *)
(* and then recorded once in rename_failures and still at its old path;    *)
(* when the pass ends, at its summary or by an exception, renamed_count    *)
(* plus the failure records the pass added is the number of bundles it     *)
(* listed, which at the summary is every bundle of the tree.               *)
C24_NamerAccounting ==
    LET thisPass(e) == e.pass = nm.pass
        earlier(e) == e.pass < nm.pass /\ e.outcome = "failed"
        cur == SelectSeq(log, thisPass)
        renamed == {i \in 1..Len(cur) : cur[i].outcome = "renamed"}
        failed == {i \in 1..Len(cur) : cur[i].outcome = "failed"}
        added == Len(rename_failures) - Len(SelectSeq(log, earlier))
    IN  InPass =>
        /\ renamed \cup failed = 1..Len(cur)
        /\ nm.renamed_count = Cardinality(renamed)
        /\ added = Cardinality(failed)
        /\ \A i \in failed : cur[i].new = cur[i].old /\ cur[i].old \in Names(fs[cur[i].dir][cur[i].form])
        /\ \A i \in renamed :
              /\ cur[i].new # cur[i].old
              /\ cur[i].new \in Names(fs[cur[i].dir][cur[i].form])
        /\ pc \in {"rn_dirs", "rn_forms", "renamed", "crashed"} =>
              nm.renamed_count + added = Len(cur)
        /\ pc = "renamed" => nm.renamed_count + added = Cardinality(Bundles(snap))

\* a pass reached its summary with two bundles renamed and two failures recorded
C24_Witness ==
    /\ pc = "renamed" /\ nm.pass = 1
    /\ nm.renamed_count = 2 /\ Len(rename_failures) = 2
    /\ Cardinality(Bundles(snap)) = 4

(* C26: the override table maps distinct symbols to distinct identifiers   *)
(* and no identifier is a roster symbol; so while the Namer works inside   *)
(* an entity directory its ticker is the symbol s when the directory was   *)
(* staged as resolve(s) for an overridden s, and the unchanged directory   *)
(* name otherwise; on a freshly staged tree the directory rename succeeds. *)
C26_ResolverNamerRoundTrip ==
    /\ \A s, t \in DOMAIN DELISTED_TICKER_TO_CIK :
          s # t => DELISTED_TICKER_TO_CIK[s] # DELISTED_TICKER_TO_CIK[t]
    /\ \A s \in DOMAIN DELISTED_TICKER_TO_CIK : DELISTED_TICKER_TO_CIK[s] \notin Roster
    /\ nm.pass = 1 => pc # "crashed"
    /\ (pc \in {"rn_forms", "rn_accs"} /\ nm.pass = 1) =>
          \A d \in DOMAIN snap :
              /\ \A s \in DOMAIN DELISTED_TICKER_TO_CIK :
                    d = DELISTED_TICKER_TO_CIK[s] => nm.ticker = s /\ nm.tdir = s /\ DOMAIN fs = {s}
              /\ d \notin CikDirs => nm.ticker = d /\ nm.tdir = d /\ DOMAIN fs = {d}

\* the directory staged under the identifier of DFS is being worked on as DFS
C26_Witness ==
    /\ pc = "rn_accs" /\ nm.pass = 1
    /\ DOMAIN snap = {DELISTED_TICKER_TO_CIK["DFS"]}
    /\ nm.ticker = "DFS" /\ DOMAIN fs = {"DFS"}

\* some form directory of the entity holds more bundles than the menu expects
Overshoot(t) ==
    /\ Lookup(t) \in DOMAIN fs
    /\ \E f \in FormTypes \cap DOMAIN fs[Lookup(t)] : Cardinality(fs[Lookup(t)][f]) > Limit(f)

(* C25: no step of the download removes a directory or a bundle from       *)
(* staging, so the bundle count of every form directory never decreases;   *)
(* an entity with more bundles of some form than expected is never         *)
(* COMPLETE afterwards, and is EXHAUSTED when the download returns.        *)
C25_Step ==
    /\ \A d \in DOMAIN fs :
          /\ d \in DOMAIN fs'
          /\ \A f \in DOMAIN fs[d] :
                /\ f \in DOMAIN fs'[d]
                /\ Names(fs[d][f]) \subseteq Names(fs'[d][f])
                /\ Cardinality(fs[d][f]) <= Cardinality(fs'[d][f])
    /\ \A t \in Roster :
          /\ Overshoot(t) => Overshoot(t)'
          /\ Overshoot(t)' => phase'[t] # "COMPLETE"
          /\ (pc' = "rename" /\ Overshoot(t)') => phase'[t] = "EXHAUSTED"

C25_StagingNeverCleaned == [][C25_Step]_vars

\* the download returned with an entity EXHAUSTED whose staging holds one bundle too many
C25_Witness ==
    /\ pc = "rename"
    /\ \E t \in Roster :
          /\ Overshoot(t) /\ phase[t] = "EXHAUSTED"
          /\ cycles[t] = max_attempts + 1

-----------------------------------------------------------------------------
(* Stage ordering and the packaging gate, on the run of main.             *)

\* the Namer or a later stage of main has the control
AfterDownload == pc \in {"rename", "rn_dirs", "rn_forms", "rn_accs", "renamed", "crashed", "done"}

\* a sequence is the beginning of another
IsPrefix(a, b) == Len(a) <= Len(b) /\ SubSeq(b, 1, Len(a)) = a

(* C21: in a run of main no bundle is renamed while the download runs, and *)
(* once the Namer has the control no frame of the download is left and     *)
(* every roster entity is COMPLETE or EXHAUSTED; a cycle is verified only  *)
(* after the whole menu was requested for its entity, one verification per *)
(* cycle; and the archive is written only at the end of a finished pass    *)
(* that handled every bundle of the tree it started from.                  *)
C21_StageOrdering ==
    /\ pc = "download" =>
          /\ log = <<>> /\ nm.pass = 0
          /\ \A e \in Bundles(fs) : e[3].kind = "acc"
    /\ AfterDownload =>
          /\ stack = <<>>
          /\ \A t \in Roster : Settled(t) /\ Verifications(t) = cycles[t]
    /\ CycleOver =>
          /\ Len(hist.reqs) = Len(filings_config)
          /\ \A k \in 1..Len(hist.reqs) : hist.reqs[k].ticker = Top.tickers[Top.i]
          /\ Verifications(Top.tickers[Top.i]) = cycles[Top.tickers[Top.i]] - 1
    /\ \A t \in Roster : Verifications(t) <= cycles[t]
    /\ zipped =>
          /\ pc = "done" /\ nm.pass = 1
          /\ nm.dirs = <<>> /\ nm.forms = <<>> /\ nm.accs = <<>>
          /\ {<<SnapDir(log[i].dir), log[i].form, log[i].old>> : i \in 1..Len(log)} = Bundles(snap)

\* the archive was written after a pass that renamed the bundles of a retried entity
C21_Witness ==
    /\ pc = "done" /\ zipped
    /\ Len(log) > 0
    /\ \E t \in Roster : cycles[t] > 1

(* C23: the three failure lists only grow by appending; the archive is     *)
(* written by the step after the Namer pass and by no other, exactly when  *)
(* the fetch-failure, permanent-failure and rename-failure lists are all   *)
(* empty at that step, so a fetch failure of an entity that a retry made   *)
(* COMPLETE still prevents it.                                             *)
C23_Step ==
    /\ IsPrefix(download_failures, download_failures')
    /\ IsPrefix(incomplete_tickers, incomplete_tickers')
    /\ IsPrefix(rename_failures, rename_failures')
    /\ zipped => zipped'
    /\ zipped' # zipped => pc = "renamed" /\ pc' = "done"
    /\ (pc = "renamed" /\ pc' = "done") =>
          (zipped' <=> /\ download_failures = <<>>
                       /\ incomplete_tickers = <<>>
                       /\ rename_failures = <<>>)

C23_PackagingGate == [][C23_Step]_vars

\* main ended without the archive: every entity is COMPLETE and nothing failed
\* to rename, but a request of a cycle that was retried had raised
C23_Witness ==
    /\ pc = "done" /\ ~zipped
    /\ download_failures # <<>>
    /\ incomplete_tickers = <<>> /\ rename_failures = <<>>
    /\ \A t \in Roster : phase[t] = "COMPLETE"

====
